---- MODULE Spec2Model ----
(***************************************************************************)
(* Model of src/app.py: the dashboard script of                            *)
(* rushiraj-gohil/data-cleanup-and-analysis.  One run of the script is a   *)
(* sequence of steps: load_data, the revenue trend block, the cohort       *)
(* retention block, the support/payment block, the final success banner.   *)
(*                                                                         *)
(* Tables are sequences of records (one record per row, one field per      *)
(* column).  A timestamp is a record [y, m, d]; the time of day plays no   *)
(* role in the script.  total_amount is an integer number of currency      *)
(* units, so that sums and means are exact.                                *)
(***************************************************************************)
EXTENDS Integers, Sequences, FiniteSets

VARIABLES
    pc,             \* position of the script: load, revenue, cohort, correlation, success, done, stopped
    status_code,    \* HTTP status the archive URL answers with
    zip_file,       \* the five tables held by the remote archive
    fetches,        \* number of requests.get calls made in this run
    transactions, sessions, customers, tickets, products,   \* module-level tables
    monthly_rev,    \* revenue trend output
    cohort_size, retention, retention_rate,                 \* cohort retention output
    combined,       \* support/payment output
    rendered        \* elements put on the page, in order

vars == <<pc, status_code, zip_file, fetches, transactions, sessions, customers,
          tickets, products, monthly_rev, cohort_size, retention, retention_rate,
          combined, rendered>>

tables == <<transactions, sessions, customers, tickets, products>>
outputs == <<monthly_rev, cohort_size, retention, retention_rate, combined>>

-----------------------------------------------------------------------------
(* Bounds of the enumerated inputs *)

MaxTx == 4          \* rows of a transaction table with rows of every status
LedgerMonths == 6   \* calendar months of a table of monthly paid transactions
MaxCustomers == 2   \* customer ids 1..MaxCustomers
MaxSessions == 3    \* rows of the session table
MaxTickets == 3     \* rows of the ticket table

Amounts == <<1, 2>>
LedgerAmounts == <<1, 2, 5>>
Statuses == <<"paid", "refunded", "charged_back">>

-----------------------------------------------------------------------------
(* Timestamps *)

\* The k-th calendar month counted from November 2023, on day d.
Timestamp(k, d) ==
    [y |-> 2023 + ((10 + k) \div 12), m |-> ((10 + k) % 12) + 1, d |-> d]

\* series.dt.to_period("M").dt.to_timestamp(): first day of the timestamp's month
ToMonthStart(t) == [y |-> t.y, m |-> t.m, d |-> 1]

\* chronological order of month starts
MonthBefore(a, b) == a.y < b.y \/ (a.y = b.y /\ a.m < b.m)

-----------------------------------------------------------------------------
(* Generic helpers *)

RECURSIVE SumSeq(_)
SumSeq(s) == IF s = <<>> THEN 0 ELSE Head(s) + SumSeq(Tail(s))

Range(s) == {s[i] : i \in DOMAIN s}

\* the months of set S in ascending order
RECURSIVE SortMonths(_)
SortMonths(S) ==
    IF S = {} THEN <<>>
    ELSE LET least == CHOOSE a \in S : \A b \in S \ {a} : MonthBefore(a, b)
         IN  <<least>> \o SortMonths(S \ {least})

\* the integers of set S in ascending order
RECURSIVE SortInts(_)
SortInts(S) ==
    IF S = {} THEN <<>>
    ELSE LET least == CHOOSE a \in S : \A b \in S : a <= b
         IN  <<least>> \o SortInts(S \ {least})

\* non-decreasing sequences of length n over lo..hi
RECURSIVE NonDecreasing(_, _, _)
NonDecreasing(n, lo, hi) ==
    IF n = 0 THEN {<<>>}
    ELSE LET shorter == NonDecreasing(n - 1, lo, hi)
         IN  {<<p[1]>> \o p[2] :
                p \in {q \in (lo..hi) \X shorter : q[2] = <<>> \/ q[1] <= q[2][1]}}

-----------------------------------------------------------------------------
(* 1. Revenue trend with anomaly detection *)

NaN == [nan |-> TRUE, sign |-> 0, num |-> 0, den |-> 0]

\* the filter left out: every row is kept
PaidFilterAll(tx) == tx

\* transactions[transactions["payment_status"] == "paid"]
PaidFilter(tx) == SelectSeq(tx, LAMBDA r : r.payment_status = "paid")

\* paid_tx: a copy of the paid rows with the column transaction_month added
PaidTx(tx) ==
    LET paid == PaidFilter(tx)
    IN  [i \in DOMAIN paid |->
            [transaction_id |-> paid[i].transaction_id,
             customer_id |-> paid[i].customer_id,
             created_at |-> paid[i].created_at,
             total_amount |-> paid[i].total_amount,
             payment_status |-> paid[i].payment_status,
             transaction_month |-> ToMonthStart(paid[i].created_at)]]

\* groupby("transaction_month")["total_amount"].sum().reset_index().sort_values(...)
GroupSum(paid) ==
    LET months == SortMonths({paid[i].transaction_month : i \in DOMAIN paid})
    IN  [j \in DOMAIN months |->
            [transaction_month |-> months[j],
             total_amount |-> SumSeq([i \in DOMAIN paid |->
                                         IF paid[i].transaction_month = months[j]
                                         THEN paid[i].total_amount ELSE 0])]]

\* Series.mean(): the rational num/den, NaN for an empty series
Mean(totals) ==
    IF Len(totals) = 0 THEN [nan |-> TRUE, num |-> 0, den |-> 1]
    ELSE [nan |-> FALSE, num |-> SumSeq(totals), den |-> Len(totals)]

\* Series.std(), ddof = 1: the square root of sq_num/sq_den, NaN below two values
Std(totals) ==
    LET n == Len(totals)
        S == SumSeq(totals)
    IN  IF n < 2 THEN [nan |-> TRUE, sq_num |-> 0, sq_den |-> 1]
        ELSE [nan |-> FALSE,
              sq_num |-> SumSeq([i \in DOMAIN totals |-> (n * totals[i] - S) * (n * totals[i] - S)]),
              sq_den |-> n * n * (n - 1)]

Sign(x) == IF x > 0 THEN 1 ELSE IF x < 0 THEN -1 ELSE 0

\* (x - mean) / std as sign * sqrt(num/den); 0/0 and anything over NaN are NaN.
\* A non-zero deviation over a zero std cannot occur: std = 0 makes every
\* deviation zero.
ZScore(x, mean, std) ==
    LET dev == x * mean.den - mean.num      \* (x - mean) * mean.den
    IN  IF mean.nan \/ std.nan \/ std.sq_num = 0 THEN NaN
        ELSE [nan |-> FALSE, sign |-> Sign(dev),
              num |-> dev * dev * std.sq_den,
              den |-> mean.den * mean.den * std.sq_num]

\* z > 2, the abs left out
AbsGt2Signed(z) == ~z.nan /\ z.sign = 1 /\ z.num > 4 * z.den

\* abs(z) > 2; a comparison with NaN is False
AbsGt2(z) == ~z.nan /\ z.num > 4 * z.den

\* np.where(abs(z_score) > 2, "Anomaly", "Normal")
Anomaly(z) == IF AbsGt2(z) THEN "Anomaly" ELSE "Normal"

MonthlyRev(tx) ==
    LET grouped == GroupSum(PaidTx(tx))
        totals == [j \in DOMAIN grouped |-> grouped[j].total_amount]
        mean_rev == Mean(totals)
        std_rev == Std(totals)
    IN  [j \in DOMAIN grouped |->
            LET z == ZScore(grouped[j].total_amount, mean_rev, std_rev)
            IN  [transaction_month |-> grouped[j].transaction_month,
                 total_amount |-> grouped[j].total_amount,
                 z_score |-> z,
                 anomaly |-> Anomaly(z)]]

RevenueTrend ==
    /\ pc = "revenue"
    /\ monthly_rev' = MonthlyRev(transactions)
    /\ rendered' = rendered \o <<"header_1", "line_chart", "info_1">>
    /\ pc' = "cohort"
    /\ UNCHANGED <<status_code, zip_file, fetches, tables,
                   cohort_size, retention, retention_rate, combined>>

-----------------------------------------------------------------------------
(* 2. Cohort retention *)

NaT == [y |-> 0, m |-> 0, d |-> 0]

\* customers["cohort_month"] = ...: the column is added to the table itself
WithCohortMonth(cust) ==
    [i \in DOMAIN cust |->
        [customer_id |-> cust[i].customer_id,
         signup_date |-> cust[i].signup_date,
         cohort_month |-> ToMonthStart(cust[i].signup_date)]]

\* sessions["activity_month"] = ...: the column is added to the table itself
WithActivityMonth(sess) ==
    [i \in DOMAIN sess |->
        [customer_id |-> sess[i].customer_id,
         session_start |-> sess[i].session_start,
         activity_month |-> ToMonthStart(sess[i].session_start)]]

\* the rows a left merge produces for one customer row: one per matching
\* session, or a single row with a missing activity_month
MergeRows(c, sess) ==
    LET match == SelectSeq(sess, LAMBDA s : s.customer_id = c.customer_id)
    IN  IF match = <<>>
        THEN <<[customer_id |-> c.customer_id, cohort_month |-> c.cohort_month,
                activity_month |-> NaT]>>
        ELSE [i \in DOMAIN match |->
                [customer_id |-> c.customer_id, cohort_month |-> c.cohort_month,
                 activity_month |-> match[i].activity_month]]

\* pd.merge(customers[...], sessions[...], on="customer_id", how="left")
RECURSIVE LeftMerge(_, _)
LeftMerge(cust, sess) ==
    IF cust = <<>> THEN <<>>
    ELSE MergeRows(Head(cust), sess) \o LeftMerge(Tail(cust), sess)

\* (activity year - cohort year) * 12 + (activity month - cohort month); NaN
\* when the activity month is missing
MonthNumber(r) ==
    IF r.activity_month = NaT THEN [nan |-> TRUE, value |-> 0]
    ELSE [nan |-> FALSE,
          value |-> (r.activity_month.y - r.cohort_month.y) * 12
                    + (r.activity_month.m - r.cohort_month.m)]

\* merged with month_number, restricted to 0 <= month_number <= 5 (a
\* comparison with NaN is False)
Merged(cust, sess) ==
    LET m == LeftMerge(cust, sess)
        withNumber == [i \in DOMAIN m |->
                          [customer_id |-> m[i].customer_id,
                           cohort_month |-> m[i].cohort_month,
                           activity_month |-> m[i].activity_month,
                           month_number |-> MonthNumber(m[i])]]
        kept == SelectSeq(withNumber,
                          LAMBDA r : /\ ~r.month_number.nan
                                     /\ r.month_number.value >= 0
                                     /\ r.month_number.value <= 5)
    IN  [i \in DOMAIN kept |->
            [customer_id |-> kept[i].customer_id,
             cohort_month |-> kept[i].cohort_month,
             activity_month |-> kept[i].activity_month,
             month_number |-> kept[i].month_number.value]]

\* merged.groupby("cohort_month")["customer_id"].nunique()
CohortSize(merged) ==
    [c \in {merged[i].cohort_month : i \in DOMAIN merged} |->
        Cardinality({merged[i].customer_id :
                        i \in {j \in DOMAIN merged : merged[j].cohort_month = c}})]

\* count() in place of nunique(): the rows of the group
RetentionCellRows(merged, c, k) ==
    Cardinality({j \in DOMAIN merged :
                    merged[j].cohort_month = c /\ merged[j].month_number = k})

\* one cell of groupby(["cohort_month", "month_number"])["customer_id"].nunique()
RetentionCell(merged, c, k) ==
    Cardinality({merged[i].customer_id :
                    i \in {j \in DOMAIN merged :
                              merged[j].cohort_month = c /\ merged[j].month_number = k}})

\* ... .unstack(fill_value=0): rows are the cohort months of merged, columns the
\* month numbers of merged, absent combinations are 0
Retention(merged) ==
    LET cohorts == {merged[i].cohort_month : i \in DOMAIN merged}
        numbers == {merged[i].month_number : i \in DOMAIN merged}
    IN  [index |-> SortMonths(cohorts),
         columns |-> SortInts(numbers),
         cell |-> [x \in cohorts \X numbers |-> RetentionCell(merged, x[1], x[2])]]

\* round(a / b, 3) in thousandths, ties to even
Round3(a, b) ==
    LET q == (1000 * a) \div b
        r == (1000 * a) % b
    IN  IF 2 * r > b THEN q + 1
        ELSE IF 2 * r = b THEN q + (q % 2)
        ELSE q

\* retention.divide(cohort_size, axis=0).round(3) * 100, in tenths of a percent
RetentionRate(ret, size) ==
    [index |-> ret.index,
     columns |-> ret.columns,
     cell |-> [x \in DOMAIN ret.cell |-> Round3(ret.cell[x], size[x[1]])]]

EmptyFrame == [index |-> <<>>, columns |-> <<>>, cell |-> <<>>]

CohortRetention ==
    /\ pc = "cohort"
    /\ customers' = WithCohortMonth(customers)
    /\ sessions' = WithActivityMonth(sessions)
    /\ LET merged == Merged(customers', sessions')
       IN  /\ cohort_size' = CohortSize(merged)
           /\ retention' = Retention(merged)
           /\ retention_rate' = RetentionRate(retention', cohort_size')
    /\ rendered' = rendered \o <<"header_2", "retention_table", "info_2">>
    /\ pc' = "correlation"
    /\ UNCHANGED <<status_code, zip_file, fetches, transactions, tickets, products,
                   monthly_rev, combined>>

-----------------------------------------------------------------------------
(* 3. Support tickets vs payment status *)

Missing == [nan |-> TRUE, value |-> 0]
Present(v) == [nan |-> FALSE, value |-> v]

\* tickets.groupby("customer_id").size().reset_index(name="ticket_count")
TicketCounts(tk) ==
    LET ids == SortInts({tk[i].customer_id : i \in DOMAIN tk})
    IN  [j \in DOMAIN ids |->
            [customer_id |-> ids[j],
             ticket_count |-> Cardinality({i \in DOMAIN tk : tk[i].customer_id = ids[j]})]]

\* transactions.groupby(["customer_id", "payment_status"])["transaction_id"]
\*     .count().unstack(fill_value=0).reset_index()
\* columns: the statuses occurring in the table; rows: its customers
PaymentSummary(tx) ==
    LET ids == SortInts({tx[i].customer_id : i \in DOMAIN tx})
        seen == {tx[i].payment_status : i \in DOMAIN tx}
    IN  [columns |-> {"customer_id"} \cup seen,
         rows |-> [j \in DOMAIN ids |->
                     [col \in {"customer_id"} \cup seen |->
                         IF col = "customer_id" THEN ids[j]
                         ELSE Cardinality({i \in DOMAIN tx : /\ tx[i].customer_id = ids[j]
                                                             /\ tx[i].payment_status = col})]]]

\* pd.merge(ticket_counts, payment_summary, on="customer_id", how="left"):
\* one row per ticket_counts row (customer_id is unique in payment_summary),
\* the payment columns missing when the customer has no transaction
MergeCounts(tc, ps) ==
    LET cols == {"customer_id", "ticket_count"} \cup ps.columns
    IN  [columns |-> cols,
         rows |-> [j \in DOMAIN tc |->
                     LET match == SelectSeq(ps.rows,
                                     LAMBDA r : r["customer_id"] = tc[j].customer_id)
                     IN  [col \in cols |->
                             IF col = "customer_id" THEN Present(tc[j].customer_id)
                             ELSE IF col = "ticket_count" THEN Present(tc[j].ticket_count)
                             ELSE IF match = <<>> THEN Missing
                             ELSE Present(match[1][col])]]]

\* combined.fillna(0, inplace=True)
FillNa(frame) ==
    [columns |-> frame.columns,
     rows |-> [j \in DOMAIN frame.rows |->
                 [col \in frame.columns |->
                     IF frame.rows[j][col].nan THEN 0 ELSE frame.rows[j][col].value]]]

\* combined["paid_tx"] = combined.get("paid", 0)
WithPaidTx(frame) ==
    [columns |-> frame.columns \cup {"paid_tx"},
     rows |-> [j \in DOMAIN frame.rows |->
                 [col \in frame.columns \cup {"paid_tx"} |->
                     IF col = "paid_tx"
                     THEN (IF "paid" \in frame.columns THEN frame.rows[j]["paid"] ELSE 0)
                     ELSE frame.rows[j][col]]]]

Combined(tk, tx) ==
    WithPaidTx(FillNa(MergeCounts(TicketCounts(tk), PaymentSummary(tx))))

NoFrame == [columns |-> {}, rows |-> <<>>]

Correlation ==
    /\ pc = "correlation"
    /\ combined' = Combined(tickets, transactions)
    /\ rendered' = rendered \o <<"header_3", "scatter_plot", "info_3">>
    /\ pc' = "success"
    /\ UNCHANGED <<status_code, zip_file, fetches, tables,
                   monthly_rev, cohort_size, retention, retention_rate>>

\* st.success(...): the last statement of the script
Success ==
    /\ pc = "success"
    /\ rendered' = Append(rendered, "success")
    /\ pc' = "done"
    /\ UNCHANGED <<status_code, zip_file, fetches, tables, outputs>>

-----------------------------------------------------------------------------
(* Loading the archive *)

\* the status test left out
FetchFailedNever(code) == FALSE

\* response.status_code != 200
FetchFailed(code) == code # 200

\* load_data() and the assignment of its result.  st.stop() ends the run.
LoadData ==
    /\ pc = "load"
    /\ fetches' = fetches + 1
    /\ IF FetchFailed(status_code)
       THEN /\ rendered' = Append(rendered, "error")
            /\ pc' = "stopped"
            /\ UNCHANGED tables
       ELSE /\ transactions' = zip_file.transactions
            /\ sessions' = zip_file.sessions
            /\ customers' = zip_file.customers
            /\ tickets' = zip_file.tickets
            /\ products' = zip_file.products
            /\ rendered' = rendered
            /\ pc' = "revenue"
    /\ UNCHANGED <<status_code, zip_file, outputs>>

-----------------------------------------------------------------------------
(* Input tables.  Row order plays no role in any step of the script (every  *)
(* step groups or merges by key), so each table is enumerated in one order. *)
(* Every table holds at least one row.                                      *)

\* the i-th element (from 0) of the product custs x dates x amounts x statuses
TxItem(i, custs, dates, amounts, statuses) ==
    LET ns == Len(statuses)
        na == Len(amounts)
        nd == Len(dates)
    IN  [customer_id |-> custs[(i \div (ns * na * nd)) + 1],
         created_at |-> dates[((i \div (ns * na)) % nd) + 1],
         total_amount |-> amounts[((i \div ns) % na) + 1],
         payment_status |-> statuses[(i % ns) + 1]]

\* index sequences of 1..n rows over k row values
RowIndexes(n, k) == UNION {NonDecreasing(len, 1, k) : len \in 1..n}

\* the transaction table whose j-th row is the s[j]-th row value
TxTable(s, custs, dates, amounts, statuses) ==
    [j \in DOMAIN s |->
        LET it == TxItem(s[j] - 1, custs, dates, amounts, statuses)
        IN  [transaction_id |-> j,
             customer_id |-> it.customer_id,
             created_at |-> it.created_at,
             total_amount |-> it.total_amount,
             payment_status |-> it.payment_status]]

TxSize(custs, dates, amounts, statuses) ==
    Len(custs) * Len(dates) * Len(amounts) * Len(statuses)

SessionTable(s, custs, dates) ==
    [j \in DOMAIN s |->
        [customer_id |-> custs[((s[j] - 1) \div Len(dates)) + 1],
         session_start |-> dates[((s[j] - 1) % Len(dates)) + 1]]]

TicketTable(s, custs, date) ==
    [j \in DOMAIN s |-> [customer_id |-> custs[s[j]], created_at |-> date]]

\* the customer table over ids 1..n in which customer c signed up at
\* dates[f[c]], or is absent when f[c] = 0; customer_id is unique
CustomerTable(f, dates) ==
    LET ids == SortInts({c \in DOMAIN f : f[c] > 0})
    IN  [j \in DOMAIN ids |-> [customer_id |-> ids[j], signup_date |-> dates[f[ids[j]]]]]

\* the table of paid transactions with one transaction of amount
\* amounts[f[k]] in the k-th month, or none when f[k] = 0
LedgerTable(f, dates, amounts) ==
    LET ks == SortInts({k \in DOMAIN f : f[k] > 0})
    IN  [j \in DOMAIN ks |->
            [transaction_id |-> j,
             customer_id |-> 1,
             created_at |-> dates[ks[j]],
             total_amount |-> amounts[f[ks[j]]],
             payment_status |-> "paid"]]

LedgerChoices(n, amounts) ==
    {g \in [1..n -> 0..Len(amounts)] : \E k \in 1..n : g[k] > 0}

SignupChoices(n, dates) ==
    {g \in [1..n -> 0..Len(dates)] : \E c \in 1..n : g[c] > 0}

CustomerIds == [c \in 1..MaxCustomers |-> c]

VariedDates == <<Timestamp(1, 3), Timestamp(1, 20), Timestamp(2, 3)>>
LedgerDates == [k \in 1..LedgerMonths |-> Timestamp(k - 1, 15)]
SignupDates == <<Timestamp(1, 10), Timestamp(2, 10)>>
SessionDates == <<Timestamp(1, 20), Timestamp(2, 20), Timestamp(3, 20),
                  Timestamp(7, 20), Timestamp(8, 20)>>

OneTx == <<[transaction_id |-> 1, customer_id |-> 1, created_at |-> Timestamp(1, 3),
            total_amount |-> 1, payment_status |-> "paid"]>>
OneSession == <<[customer_id |-> 1, session_start |-> Timestamp(1, 20)]>>
OneCustomer == <<[customer_id |-> 1, signup_date |-> Timestamp(1, 10)]>>
OneTicket == <<[customer_id |-> 1, created_at |-> Timestamp(1, 3)]>>
Products == <<[product_id |-> 1]>>

Archive(tx, sess, cust, tk) ==
    [transactions |-> tx, sessions |-> sess, customers |-> cust, tickets |-> tk,
     products |-> Products]

-----------------------------------------------------------------------------
(* Specifications *)

\* the state right after load_data() returned archive a
Loaded(a) ==
    /\ status_code = 200
    /\ zip_file = a
    /\ fetches = 1
    /\ transactions = a.transactions
    /\ tickets = a.tickets
    /\ products = a.products

\* A whole run of the script, from before the fetch.
Init ==
    /\ pc = "load"
    /\ status_code \in {200, 404, 500}
    /\ \E t \in RowIndexes(1, TxSize(CustomerIds, VariedDates, <<1>>, Statuses)),
          s \in RowIndexes(1, Len(CustomerIds) * Len(SessionDates)),
          f \in SignupChoices(MaxCustomers, SignupDates),
          k \in RowIndexes(1, Len(CustomerIds)) :
            zip_file = Archive(TxTable(t, CustomerIds, VariedDates, <<1>>, Statuses),
                               SessionTable(s, CustomerIds, SessionDates),
                               CustomerTable(f, SignupDates),
                               TicketTable(k, CustomerIds, Timestamp(1, 3)))
    /\ fetches = 0
    /\ transactions = <<>> /\ sessions = <<>> /\ customers = <<>>
    /\ tickets = <<>> /\ products = <<>>
    /\ monthly_rev = <<>>
    /\ cohort_size = <<>> /\ retention = EmptyFrame /\ retention_rate = EmptyFrame
    /\ combined = NoFrame
    /\ rendered = <<"title">>

Next == LoadData \/ RevenueTrend \/ CohortRetention \/ Correlation \/ Success

Spec == Init /\ [][Next]_vars

\* The revenue block on transaction tables of up to MaxTx rows of every status,
\* and on tables of at most one paid transaction in each of LedgerMonths months.
InitRevenue ==
    /\ pc = "revenue"
    /\ \/ \E t \in RowIndexes(MaxTx, TxSize(<<1>>, VariedDates, Amounts, Statuses)) :
            Loaded(Archive(TxTable(t, <<1>>, VariedDates, Amounts, Statuses),
                           OneSession, OneCustomer, OneTicket))
       \/ \E f \in LedgerChoices(LedgerMonths, LedgerAmounts) :
            Loaded(Archive(LedgerTable(f, LedgerDates, LedgerAmounts),
                           OneSession, OneCustomer, OneTicket))
    /\ sessions = zip_file.sessions
    /\ customers = zip_file.customers
    /\ monthly_rev = <<>>
    /\ cohort_size = <<>> /\ retention = EmptyFrame /\ retention_rate = EmptyFrame
    /\ combined = NoFrame
    /\ rendered = <<"title">>

SpecRevenue == InitRevenue /\ [][RevenueTrend]_vars

\* The cohort block on every enumerated customer and session table.
InitCohort ==
    /\ pc = "cohort"
    /\ \E f \in SignupChoices(MaxCustomers, SignupDates),
          s \in RowIndexes(MaxSessions, Len(CustomerIds) * Len(SessionDates)) :
          Loaded(Archive(OneTx, SessionTable(s, CustomerIds, SessionDates),
                         CustomerTable(f, SignupDates), OneTicket))
    /\ sessions = zip_file.sessions
    /\ customers = zip_file.customers
    /\ monthly_rev = MonthlyRev(transactions)
    /\ cohort_size = <<>> /\ retention = EmptyFrame /\ retention_rate = EmptyFrame
    /\ combined = NoFrame
    /\ rendered = <<"title", "header_1", "line_chart", "info_1">>

SpecCohort == InitCohort /\ [][CohortRetention]_vars

\* The support/payment block on every enumerated ticket and transaction table.
InitCorrelation ==
    /\ pc = "correlation"
    /\ \E t \in RowIndexes(MaxTx, TxSize(CustomerIds, <<Timestamp(1, 3)>>, <<1>>, Statuses)),
          k \in RowIndexes(MaxTickets, Len(CustomerIds)) :
          Loaded(Archive(TxTable(t, CustomerIds, <<Timestamp(1, 3)>>, <<1>>, Statuses),
                         OneSession, OneCustomer,
                         TicketTable(k, CustomerIds, Timestamp(1, 3))))
    /\ sessions = WithActivityMonth(zip_file.sessions)
    /\ customers = WithCohortMonth(zip_file.customers)
    /\ monthly_rev = MonthlyRev(transactions)
    /\ cohort_size = CohortSize(Merged(customers, sessions))
    /\ retention = Retention(Merged(customers, sessions))
    /\ retention_rate = RetentionRate(retention, cohort_size)
    /\ combined = NoFrame
    /\ rendered = <<"title", "header_1", "line_chart", "info_1",
                    "header_2", "retention_table", "info_2">>

SpecCorrelation == InitCorrelation /\ [][Correlation]_vars

-----------------------------------------------------------------------------
(* Properties *)

RevenueDone == pc \in {"cohort", "correlation", "success", "done"}
CohortDone == pc \in {"correlation", "success", "done"}
CorrelationDone == pc \in {"success", "done"}

AnalyzerElements == {"line_chart", "retention_table", "scatter_plot"}

\* customers of the loaded tables, by what they have
HasTransaction(c) == \E i \in DOMAIN transactions : transactions[i].customer_id = c
HasTicket(c) == \E i \in DOMAIN tickets : tickets[i].customer_id = c
TicketsOf(c) == Cardinality({i \in DOMAIN tickets : tickets[i].customer_id = c})
TransactionsOf(c, st) ==
    Cardinality({i \in DOMAIN transactions :
                    transactions[i].customer_id = c /\ transactions[i].payment_status = st})
RowsOf(c) == {j \in DOMAIN combined.rows : combined.rows[j]["customer_id"] = c}

\* C1: every customer with at least one transaction and no ticket has a row in
\* the support/payment output with ticket_count = 0 and, for each payment
\* status, the number of the customer's transactions with that status.
C1_TransactionsOnlyCustomerHasRow ==
    CorrelationDone =>
        \A c \in {transactions[i].customer_id : i \in DOMAIN transactions} :
            ~HasTicket(c) =>
                \E j \in RowsOf(c) :
                    /\ combined.rows[j]["ticket_count"] = 0
                    /\ \A st \in {transactions[i].payment_status : i \in DOMAIN transactions} :
                          combined.rows[j][st] = TransactionsOf(c, st)

\* C4: every customer with n >= 1 tickets and no transaction has exactly one
\* row in the support/payment output, with ticket_count = n and the fields
\* paid, refunded and charged_back present and 0, whatever statuses occur in
\* the transaction table.
C4_TicketsOnlyCustomerHasZeroCounts ==
    CorrelationDone =>
        \A c \in {tickets[i].customer_id : i \in DOMAIN tickets} :
            ~HasTransaction(c) =>
                /\ Cardinality(RowsOf(c)) = 1
                /\ \A j \in RowsOf(c) :
                      /\ combined.rows[j]["ticket_count"] = TicketsOf(c)
                      /\ {"paid", "refunded", "charged_back"} \subseteq combined.columns
                      /\ \A st \in {"paid", "refunded", "charged_back"} :
                            st \in combined.columns => combined.rows[j][st] = 0

\* the customers of the loaded customer table who signed up in month c
SignedUpIn(c) ==
    {zip_file.customers[i].customer_id :
        i \in {j \in DOMAIN zip_file.customers :
                  ToMonthStart(zip_file.customers[j].signup_date) = c}}

CohortMonths ==
    {ToMonthStart(zip_file.customers[i].signup_date) : i \in DOMAIN zip_file.customers}

\* C2: the denominator of every cohort of the retention matrix is the number
\* of distinct customers of the customer table who signed up in that month,
\* whether or not they have a session.
C2_DenominatorCountsAllSignups ==
    CohortDone =>
        \A c \in DOMAIN cohort_size : cohort_size[c] = Cardinality(SignedUpIn(c))

\* C3: for every cohort month of the customer table and every offset 0..5 the
\* retention matrix has a cell.
C3_EveryCellPresent ==
    CohortDone =>
        \A c \in CohortMonths : \A k \in 0..5 : <<c, k>> \in DOMAIN retention_rate.cell

\* C8: every cell of the retention matrix is between 0 and 100 percent (0 and
\* 1000 tenths of a percent), and the number of active customers of a cell is
\* at most the denominator of its cohort.
C8_RetentionWithinBounds ==
    CohortDone =>
        \A x \in DOMAIN retention_rate.cell :
            /\ retention_rate.cell[x] >= 0
            /\ retention_rate.cell[x] <= 1000
            /\ x[1] \in DOMAIN cohort_size
            /\ retention.cell[x] <= cohort_size[x[1]]

\* a cohort of two customers of whom one was active in some month, twice
C8_Witness ==
    /\ CohortDone
    /\ \E x \in DOMAIN retention_rate.cell :
          /\ retention_rate.cell[x] = 500
          /\ Cardinality({i \in DOMAIN sessions :
                             /\ sessions[i].activity_month = Timestamp(1, 1)
                             /\ sessions[i].customer_id = 1}) >= 2

\* C5: every row of the revenue output has a defined z_score.
C5_ZScoreDefined ==
    RevenueDone => \A j \in DOMAIN monthly_rev : ~monthly_rev[j].z_score.nan

\* n times the deviation of the j-th monthly total from the mean of the n
\* monthly totals of the output
Deviation(j) ==
    Len(monthly_rev) * monthly_rev[j].total_amount
        - SumSeq([i \in DOMAIN monthly_rev |-> monthly_rev[i].total_amount])

\* the sum of the squares of these: n * n * (n - 1) times the sample variance
Spread == SumSeq([i \in DOMAIN monthly_rev |-> Deviation(i) * Deviation(i)])

\* |total - mean| > 2 * std, squared and cleared of fractions
FarFromMean(j) ==
    /\ Len(monthly_rev) >= 2
    /\ Spread > 0
    /\ (Len(monthly_rev) - 1) * Deviation(j) * Deviation(j) > 4 * Spread

\* C6: a month of the revenue output is marked an anomaly exactly when
\* |z_score| > 2, where z_score is (total - mean) / standard deviation of the
\* monthly totals, that is, when the total is more than two standard
\* deviations away from the mean on either side; a single month is never an
\* anomaly.
C6_AnomalyIffFarFromMean ==
    RevenueDone =>
        /\ \A j \in DOMAIN monthly_rev :
              LET z == monthly_rev[j].z_score
              IN  /\ monthly_rev[j].anomaly \in {"Anomaly", "Normal"}
                  /\ (monthly_rev[j].anomaly = "Anomaly") <=> (~z.nan /\ z.num > 4 * z.den)
                  /\ (monthly_rev[j].anomaly = "Anomaly") <=> FarFromMean(j)
                  /\ z.nan <=> (Len(monthly_rev) < 2 \/ Spread = 0)
                  /\ ~z.nan =>
                        /\ z.sign = (IF Deviation(j) > 0 THEN 1
                                     ELSE IF Deviation(j) < 0 THEN -1 ELSE 0)
                        /\ z.num * Spread
                              = (Len(monthly_rev) - 1) * Deviation(j) * Deviation(j) * z.den
        /\ Len(monthly_rev) = 1 => monthly_rev[1].anomaly = "Normal"

\* a month flagged for a total far below the mean
C6_Witness ==
    /\ RevenueDone
    /\ \E j \in DOMAIN monthly_rev :
          monthly_rev[j].anomaly = "Anomaly" /\ monthly_rev[j].z_score.sign = -1

\* C7: the totals of the revenue output add up to the total of the paid
\* transactions, and no month occurs twice in the output.
C7_PaidRevenuePreserved ==
    RevenueDone =>
        /\ SumSeq([j \in DOMAIN monthly_rev |-> monthly_rev[j].total_amount])
              = SumSeq([i \in DOMAIN transactions |->
                           IF transactions[i].payment_status = "paid"
                           THEN transactions[i].total_amount ELSE 0])
        /\ \A i, j \in DOMAIN monthly_rev :
              monthly_rev[i].transaction_month = monthly_rev[j].transaction_month => i = j
        /\ \A j \in DOMAIN monthly_rev :
              monthly_rev[j].total_amount
                 = SumSeq([i \in DOMAIN transactions |->
                              IF /\ transactions[i].payment_status = "paid"
                                 /\ ToMonthStart(transactions[i].created_at)
                                       = monthly_rev[j].transaction_month
                              THEN transactions[i].total_amount ELSE 0])

\* two paid transactions of one month next to a transaction that is not paid
C7_Witness ==
    /\ RevenueDone
    /\ \E i \in DOMAIN transactions : transactions[i].payment_status # "paid"
    /\ \E i, j \in DOMAIN transactions :
          /\ i # j
          /\ transactions[i].payment_status = "paid"
          /\ transactions[j].payment_status = "paid"
          /\ transactions[i].created_at # transactions[j].created_at
          /\ ToMonthStart(transactions[i].created_at) = ToMonthStart(transactions[j].created_at)
    /\ Len(monthly_rev) = 2

\* C9: when the fetch answers with a status other than 200 the run stops in
\* the load step: no table is loaded, no analyzer runs, no analyzer output is
\* rendered, and the fetch is made once.
C9_FailedFetchHaltsRun ==
    status_code # 200 =>
        /\ pc \in {"load", "stopped"}
        /\ fetches <= 1
        /\ pc = "stopped" => fetches = 1
        /\ Range(rendered) \cap AnalyzerElements = {}
        /\ monthly_rev = <<>> /\ retention_rate = EmptyFrame /\ combined = NoFrame
        /\ transactions = <<>> /\ customers = <<>>

C9_Witness == pc = "stopped" /\ status_code = 404 /\ Range(rendered) = {"title", "error"}

\* C10: at the end of the run the five tables are the tables the loader
\* returned.
C10_TablesUnchanged ==
    pc = "done" =>
        /\ transactions = zip_file.transactions
        /\ sessions = zip_file.sessions
        /\ customers = zip_file.customers
        /\ tickets = zip_file.tickets
        /\ products = zip_file.products

====
